---- MODULE Spec2Model ----
(***************************************************************************)
(* Course scheduling pipeline of src/scheduling/main.py:                   *)
(*   preprocess_data -> build_optimization_model ->                        *)
(*   solve_and_generate_schedules -> generate_block_schedules.             *)
(*                                                                         *)
(* Identifiers that the code joins with '_' and later splits again are     *)
(* sequences of tokens: the string "c1_1" is <<"c1", "1">>, so that        *)
(* s.split('_') is the sequence itself and '_'.join is concatenation.      *)
(* Numbers with decimals are integers in hundredths (see Scale).           *)
(* Course titles are carried by the code but decide nothing; they are      *)
(* left out of the rows.                                                   *)
(***************************************************************************)
EXTENDS Integers, Sequences, FiniteSets, TLC

VARIABLES
    pc,                 \* position of main(): which function runs next
    course_list,        \* raw course rows (load_data)
    lecturer_details,   \* raw lecturer rows, in file order
    student_requests,   \* raw request rows
    courses_df,         \* preprocess_data: rows with lower-cased code
    lecturers_df,       \* preprocess_data: rows with Section_ID
    requests_df,        \* preprocess_data: rows with Priority_Value
    all_blocks,         \* preprocess_data: the block universe
    request_priorities, \* preprocess_data: (student, course) -> weight
    model,              \* build_optimization_model: the LpProblem
    status,             \* model.status after model.solve
    values,             \* var.value() of every variable, in hundredths
    student_schedules,  \* solve_and_generate_schedules
    professor_schedules,
    fulfilled,          \* fulfilled_required / _requested / _recommended
    unfulfilled_required_requests,
    student_block_schedules,    \* generate_block_schedules
    professor_block_schedules

vars == <<pc, course_list, lecturer_details, student_requests, courses_df,
          lecturers_df, requests_df, all_blocks, request_priorities, model,
          status, values, student_schedules, professor_schedules, fulfilled,
          unfulfilled_required_requests, student_block_schedules,
          professor_block_schedules>>

inputs == <<course_list, lecturer_details, student_requests>>
frames == <<courses_df, lecturers_df, requests_df, all_blocks, request_priorities>>
results == <<status, values, student_schedules, professor_schedules, fulfilled,
             unfulfilled_required_requests>>
tables == <<student_block_schedules, professor_block_schedules>>

----------------------------------------------------------------------------
(* Bounds of the model                                                     *)

\* Largest value the solver gives a continuous diff variable (they have no
\* upper bound in the code); at least the number of students, so that every
\* imbalance of section sizes can be met.
MaxDiff == 2

\* Largest number of variables an infeasible solve leaves at 1.
MaxLeft == 1

\* One hundredth is the unit of solver values and objective coefficients:
\* 1.0 is 100, the balance penalty 0.01 is 1.
Scale == 100

NoValue == "-"

----------------------------------------------------------------------------
(* Generic helpers                                                         *)

RECURSIVE SeqToSet(_)
SeqToSet(s) == IF s = <<>> THEN {} ELSE {Head(s)} \cup SeqToSet(Tail(s))

Last(s) == s[Len(s)]
Front(s) == SubSeq(s, 1, Len(s) - 1)

\* pandas Series.unique(): first occurrences, in order
RECURSIVE unique(_)
unique(s) ==
    IF s = <<>> THEN <<>>
    ELSE LET f == unique(Front(s))
         IN  IF Last(s) \in SeqToSet(f) THEN f ELSE Append(f, Last(s))

\* the rows of s at the positions in keep, in order
RECURSIVE RowsAt(_, _)
RowsAt(s, keep) ==
    IF s = <<>> THEN <<>>
    ELSE LET f == RowsAt(Front(s), keep)
         IN  IF Len(s) \in keep THEN Append(f, Last(s)) ELSE f

\* str.lower() on the tokens the inputs use
lower(tok) ==
    CASE tok = "C1" -> "c1"
      [] tok = "C2" -> "c2"
      [] OTHER -> tok

lower_code(code) == [i \in 1..Len(code) |-> lower(code[i])]

\* str(n) and int(s) for the one-digit numbers the inputs use
Digits == <<"0", "1", "2", "3", "4", "5", "6", "7", "8", "9">>
str(n) == Digits[n + 1]
is_int(tok) == \E i \in 1..Len(Digits) : Digits[i] = tok
int(tok) == (CHOOSE i \in 1..Len(Digits) : Digits[i] = tok) - 1

----------------------------------------------------------------------------
(* Inputs: the three JSON files read by load_data                          *)

Types == {"Required", "Requested", "Recommended"}

\* (Minimum section size, Maximum section size) of the first course
SizeOptions == {<<1, 1>>, <<2, 2>>}

CourseLists ==
    { << [code |-> <<"C1">>, blocks |-> <<"A", "B">>, min |-> sz[1], max |-> sz[2]],
         [code |-> <<"c2">>, blocks |-> <<"A">>,      min |-> 1,     max |-> 2] >>
      : sz \in SizeOptions }

\* Lecturer rows in file order; an input keeps any non-empty part of them.
LecturerPool ==
    << [code |-> <<"c1">>, secnum |-> 1, prof |-> "p1"],
       [code |-> <<"c1">>, secnum |-> 1, prof |-> "p2"],
       [code |-> <<"C2">>, secnum |-> 1, prof |-> "p1"],
       [code |-> <<"c2">>, secnum |-> 2, prof |-> "p2"] >>

LecturerLists ==
    { RowsAt(LecturerPool, keep) : keep \in (SUBSET (1..Len(LecturerPool))) \ {{}} }

RequestKeys == { <<1, <<"C1">> >>, <<1, <<"c2">> >>, <<2, <<"c1">> >> }

\* At most one request per (student, course): section 3 of the specification
RequestSets ==
    { { [student |-> k[1], code |-> k[2], type |-> t[k]] : k \in ks }
      : ks \in (SUBSET RequestKeys) \ {{}}, t \in [RequestKeys -> Types] }

----------------------------------------------------------------------------
(* preprocess_data                                                         *)

priority_map == [t \in Types |->
    CASE t = "Required" -> 3 [] t = "Requested" -> 2 [] t = "Recommended" -> 1]

\* Section_ID = Course Code + '_' + str(Section Number)
Section_ID(row) == row.code \o <<str(row.secnum)>>

Init ==
    /\ pc = "preprocess"
    /\ course_list \in CourseLists
    /\ lecturer_details \in LecturerLists
    /\ student_requests \in RequestSets
    /\ courses_df = NoValue
    /\ lecturers_df = NoValue
    /\ requests_df = NoValue
    /\ all_blocks = NoValue
    /\ request_priorities = NoValue
    /\ model = NoValue
    /\ status = NoValue
    /\ values = NoValue
    /\ student_schedules = NoValue
    /\ professor_schedules = NoValue
    /\ fulfilled = NoValue
    /\ unfulfilled_required_requests = NoValue
    /\ student_block_schedules = NoValue
    /\ professor_block_schedules = NoValue

preprocess_data ==
    /\ pc = "preprocess"
    /\ courses_df' = [i \in 1..Len(course_list) |->
            [course_list[i] EXCEPT !.code = lower_code(@)]]
    /\ lecturers_df' = [i \in 1..Len(lecturer_details) |->
            LET row == [lecturer_details[i] EXCEPT !.code = lower_code(@)]
            IN  [code |-> row.code, secnum |-> row.secnum, prof |-> row.prof,
                 Section_ID |-> Section_ID(row)]]
    /\ requests_df' = { [student |-> r.student, code |-> lower_code(r.code),
                         type |-> r.type, Priority_Value |-> priority_map[r.type]]
                        : r \in student_requests }
    /\ all_blocks' = UNION { SeqToSet(course_list[i].blocks) : i \in 1..Len(course_list) }
    /\ request_priorities' =
            LET rows == requests_df'
            IN  [k \in { <<r.student, r.code>> : r \in rows } |->
                    (CHOOSE r \in rows : r.student = k[1] /\ r.code = k[2]).Priority_Value]
    /\ pc' = "build"
    /\ UNCHANGED <<inputs, model, results, tables>>

----------------------------------------------------------------------------
(* build_optimization_model: lookups                                      *)

RECURSIVE Concat(_)
Concat(ss) == IF ss = <<>> THEN <<>> ELSE Head(ss) \o Concat(Tail(ss))

students == { r.student : r \in requests_df }
course_sections == unique([i \in 1..Len(lecturers_df) |-> lecturers_df[i].Section_ID])
professors == { lecturers_df[i].prof : i \in 1..Len(lecturers_df) }

\* section.split('_')[0], as a course code
split_0(section) == <<Head(section)>>

\* the dict keeps the blocks of the last row of a code
course_to_blocks ==
    [c \in { courses_df[i].code : i \in 1..Len(courses_df) } |->
        LET rows == { i \in 1..Len(courses_df) : courses_df[i].code = c }
            last == CHOOSE i \in rows : \A j \in rows : j <= i
        IN  courses_df[last].blocks]

student_course_requests ==
    [s \in students |-> { r.code : r \in { q \in requests_df : q.student = s } }]

course_to_lecturers ==
    [sec \in SeqToSet(course_sections) |->
        { lecturers_df[i].prof : i \in { j \in 1..Len(lecturers_df) : lecturers_df[j].Section_ID = sec } }]

\* the blocks a section's variables are created for
blocks_of(section) ==
    IF split_0(section) \in DOMAIN course_to_blocks
    THEN SeqToSet(course_to_blocks[split_0(section)])
    ELSE {}

----------------------------------------------------------------------------
(* build_optimization_model: decision variables, by name                   *)

x ==
    [k \in UNION { { <<s, sec, b>> : b \in blocks_of(sec) } :
                   <<s, sec>> \in { q \in students \X SeqToSet(course_sections) :
                                     split_0(q[2]) \in student_course_requests[q[1]] } } |->
        <<"x", str(k[1])>> \o k[2] \o <<k[3]>>]

y ==
    [k \in UNION { { <<p, sec, b>> : b \in blocks_of(sec) } :
                   <<p, sec>> \in { q \in professors \X SeqToSet(course_sections) :
                                     q[1] \in course_to_lecturers[q[2]] } } |->
        <<"y", k[1]>> \o k[2] \o <<k[3]>>]

section_used ==
    [k \in UNION { { <<sec, b>> : b \in blocks_of(sec) } : sec \in SeqToSet(course_sections) } |->
        <<"used">> \o k[1] \o <<k[2]>>]

\* an affine expression is a function from variable names to coefficients
lpSum(names) == [v \in names |-> 1]
times(c, e) == [v \in DOMAIN e |-> c * e[v]]

\* number of students assigned to a section in a block, as an expression
section_size(sec, b) ==
    lpSum({ x[k] : k \in { q \in DOMAIN x : q[2] = sec /\ q[3] = b } })

----------------------------------------------------------------------------
(* build_optimization_model: objective                                     *)

objective_terms ==
    LET keys == { k \in DOMAIN x : <<k[1], split_0(k[2])>> \in DOMAIN request_priorities }
    IN  [v \in { x[k] : k \in keys } |->
            LET k == CHOOSE q \in keys : x[q] = v
            IN  Scale * request_priorities[<<k[1], split_0(k[2])>>]]

----------------------------------------------------------------------------
(* build_optimization_model: constraints                                   *)
(* A constraint  e <sense> rhs  has the variables on the left, as PuLP     *)
(* stores it.                                                              *)

Constraint(name, terms, sense, rhs) ==
    [name |-> name, terms |-> terms, sense |-> sense, rhs |-> rhs]

\* Faulty variant: each variable bounded alone: the sections of a block are not summed
student_one_course_block_unsummed ==
    { Constraint(<<"student", str(k[1]), "one", "course", "block", k[3]>> \o k[2],
                 lpSum({ x[k] }), "<=", 1)
      : k \in DOMAIN x }

\* 1. a student can only be in one course per block
student_one_course_block ==
    { Constraint(<<"student", str(s), "one", "course", "block", b>>,
                 lpSum({ x[k] : k \in { q \in DOMAIN x : q[1] = s /\ q[3] = b } }),
                 "<=", 1)
      : <<s, b>> \in students \X all_blocks }

\* Faulty variant: each variable bounded alone: the sections of a block are not summed
prof_one_section_block_unsummed ==
    { Constraint(<<"prof", k[1], "one", "section", "block", k[3]>> \o k[2],
                 lpSum({ y[k] }), "<=", 1)
      : k \in DOMAIN y }

\* 2. a professor can only teach one section per block
prof_one_section_block ==
    { Constraint(<<"prof", p, "one", "section", "block", b>>,
                 lpSum({ y[k] : k \in { q \in DOMAIN y : q[1] = p /\ q[3] = b } }),
                 "<=", 1)
      : <<p, b>> \in professors \X all_blocks }

\* the (section, block) pairs the third loop reaches, with a course row
sized_pairs ==
    { k \in DOMAIN section_used :
        /\ k[2] \in blocks_of(k[1])
        /\ \E i \in 1..Len(courses_df) : courses_df[i].code = split_0(k[1]) }

\* .values[0] of the rows of the course
course_row(code) ==
    courses_df[CHOOSE i \in 1..Len(courses_df) :
                  /\ courses_df[i].code = code
                  /\ \A j \in 1..(i - 1) : courses_df[j].code # code]

\* 3. section size limits, linked to the usage indicator
min_size ==
    { Constraint(<<"min", "size">> \o k[1] \o <<k[2]>>,
                 section_size(k[1], k[2])
                    @@ (section_used[k] :> -(course_row(split_0(k[1])).min)),
                 ">=", 0)
      : k \in sized_pairs }

\* Faulty variant: the maximum is not multiplied by the usage indicator
max_size_unlinked ==
    { Constraint(<<"max", "size">> \o k[1] \o <<k[2]>>,
                 section_size(k[1], k[2]),
                 "<=", course_row(split_0(k[1])).max)
      : k \in sized_pairs }

max_size ==
    { Constraint(<<"max", "size">> \o k[1] \o <<k[2]>>,
                 section_size(k[1], k[2])
                    @@ (section_used[k] :> -(course_row(split_0(k[1])).max)),
                 "<=", 0)
      : k \in sized_pairs }

\* Faulty variant: at most one professor if the section is used
one_prof_at_most ==
    { Constraint(<<"one", "prof">> \o k[1] \o <<k[2]>>,
                 lpSum({ y[q] : q \in { r \in DOMAIN y : r[2] = k[1] /\ r[3] = k[2] } })
                    @@ (section_used[k] :> -1),
                 "<=", 0)
      : k \in sized_pairs }

\* exactly one professor if the section is used
one_prof ==
    { Constraint(<<"one", "prof">> \o k[1] \o <<k[2]>>,
                 lpSum({ y[q] : q \in { r \in DOMAIN y : r[2] = k[1] /\ r[3] = k[2] } })
                    @@ (section_used[k] :> -1),
                 "==", 0)
      : k \in sized_pairs }

\* 4. required courses must be fulfilled
relevant_sections(course_code) ==
    { sec \in SeqToSet(course_sections) : split_0(sec) = course_code }

required ==
    { Constraint(<<"required", str(r.student)>> \o r.code,
                 lpSum({ x[k] : k \in { q \in DOMAIN x :
                            /\ q[1] = r.student
                            /\ q[2] \in relevant_sections(r.code)
                            /\ r.code \in DOMAIN course_to_blocks
                            /\ q[3] \in SeqToSet(course_to_blocks[r.code]) } }),
                 ">=", 1)
      : r \in { q \in requests_df : q.type = "Required" /\ relevant_sections(q.code) # {} } }

\* 5. balance distribution across the sections of a course
course_codes_of_sections == { split_0(sec) : sec \in SeqToSet(course_sections) }

course_sections_list(course_code) ==
    SelectSeq(course_sections, LAMBDA sec : split_0(sec) = course_code)

\* the (section1, section2, block) triples of a course, in loop order
balance_pairs(course_code) ==
    LET list == course_sections_list(course_code)
    IN  IF Len(list) > 1 /\ course_code \in DOMAIN course_to_blocks
        THEN LET blocks == course_to_blocks[course_code]
                 all == Concat([bi \in 1..Len(blocks) |->
                            Concat([i \in 1..Len(list) |->
                                [d \in 1..(Len(list) - i) |->
                                    <<list[i], list[i + d], blocks[bi]>>]])])
             IN  SelectSeq(all, LAMBDA t : /\ <<t[1], t[3]>> \in DOMAIN section_used
                                           /\ <<t[2], t[3]>> \in DOMAIN section_used)
        ELSE <<>>

diff(t) == <<"diff">> \o t[1] \o t[2] \o <<t[3]>>

all_balance_pairs ==
    UNION { SeqToSet(balance_pairs(c)) : c \in course_codes_of_sections }

diff1 ==
    { Constraint(<<"diff1">> \o t[1] \o t[2] \o <<t[3]>>,
                 (diff(t) :> 1) @@ times(-1, section_size(t[1], t[3]))
                                @@ section_size(t[2], t[3]),
                 ">=", 0)
      : t \in all_balance_pairs }

diff2 ==
    { Constraint(<<"diff2">> \o t[1] \o t[2] \o <<t[3]>>,
                 (diff(t) :> 1) @@ times(-1, section_size(t[2], t[3]))
                                @@ section_size(t[1], t[3]),
                 ">=", 0)
      : t \in all_balance_pairs }

\* 0.01, the weight of a diff variable, in hundredths
PenaltyWeight == 1

\* LpProblem.__iadd__ with an expression: the expression becomes the
\* objective, whatever the objective was.
set_objective(objective, expression) == expression

\* The objective after the balance loop, when the last course the loop
\* visits among those with pairs is course_code: every pair has replaced it.
RECURSIVE penalised(_, _)
penalised(objective, pairs) ==
    IF pairs = <<>> THEN objective
    ELSE set_objective(penalised(objective, Front(pairs)),
                       (diff(Last(pairs)) :> -PenaltyWeight))

courses_with_pairs == { c \in course_codes_of_sections : balance_pairs(c) # <<>> }

\* The loop visits the courses in the order of a Python set of strings,
\* which is any order.
Orders(S) == { o \in [1..Cardinality(S) -> S] : \A c \in S : \E i \in DOMAIN o : o[i] = c }

constraints ==
    student_one_course_block \cup prof_one_section_block \cup min_size
        \cup max_size \cup one_prof \cup required \cup diff1 \cup diff2

build_optimization_model ==
    /\ pc = "build"
    /\ \E order \in Orders(courses_with_pairs) :
          model' = [ x |-> x, y |-> y, section_used |-> section_used,
                     objective |-> penalised(set_objective(<<>>, objective_terms),
                                        Concat([i \in DOMAIN order |-> balance_pairs(order[i])])),
                     constraints |-> constraints ]
    /\ pc' = "solve"
    /\ UNCHANGED <<inputs, frames, results, tables>>

\* model.variables(): the variables of the objective and of the constraints
variables(m) == DOMAIN m.objective \cup UNION { DOMAIN c.terms : c \in m.constraints }

----------------------------------------------------------------------------
(* The solver (PULP_CBC_CMD), seen from its contract: a status and a value *)
(* for every variable.                                                     *)

RECURSIVE DotOver(_, _, _)
DotOver(names, terms, val) ==
    IF names = {} THEN 0
    ELSE LET v == CHOOSE w \in names : TRUE
         IN  terms[v] * val[v] + DotOver(names \ {v}, terms, val)

\* the value of an affine expression under a valuation
Dot(terms, val) == DotOver(DOMAIN terms, terms, val)

\* a constraint holds under a valuation in hundredths
Holds(c, val) ==
    CASE c.sense = "<=" -> Dot(c.terms, val) <= c.rhs * Scale
      [] c.sense = ">=" -> Dot(c.terms, val) >= c.rhs * Scale
      [] c.sense = "==" -> Dot(c.terms, val) = c.rhs * Scale

\* x, y and used are LpBinary; diff is continuous with lowBound=0
IsBinary(v) == Head(v) \in {"x", "y", "used"}
Range(v) == IF IsBinary(v) THEN {0, Scale} ELSE { d * Scale : d \in 0..MaxDiff }

\* val is an assignment satisfying the model m
Satisfies(m, val) ==
    /\ DOMAIN val = variables(m)
    /\ \A v \in variables(m) : val[v] \in Range(v)
    /\ \A c \in m.constraints : Holds(c, val)

\* The satisfying assignments, enumerated kind by kind: a constraint is
\* tested as soon as all its variables have a value.
Extend(partial, done, new, m) ==
    LET cons == { c \in m.constraints :
                    DOMAIN c.terms \subseteq (done \cup new) /\ ~(DOMAIN c.terms \subseteq done) }
        dom  == UNION { Range(v) : v \in new }
    IN  UNION { { p @@ e : e \in { f \in [new -> dom] :
                                     /\ \A v \in new : f[v] \in Range(v)
                                     /\ \A c \in cons : Holds(c, p @@ f) } }
                : p \in partial }

Feasible(m) ==
    LET V  == variables(m)
        K(kind) == { v \in V : Head(v) = kind }
        c0 == { c \in m.constraints : DOMAIN c.terms = {} }
        s0 == IF \A c \in c0 : Holds(c, <<>>) THEN { <<>> } ELSE {}
        s1 == Extend(s0, {}, K("x"), m)
        s2 == Extend(s1, K("x"), K("used"), m)
        s3 == Extend(s2, K("x") \cup K("used"), K("y"), m)
    IN  Extend(s3, K("x") \cup K("used") \cup K("y"), K("diff"), m)

RECURSIVE SubsetsUpTo(_, _)
SubsetsUpTo(S, n) ==
    IF n = 0 THEN { {} }
    ELSE LET smaller == SubsetsUpTo(S, n - 1)
         IN  smaller \cup { T \cup {v} : T \in smaller, v \in S }

\* how far below 1 the solver may report a binary variable that is 1
Tolerances == {0, 5}

\* the outcomes of model.solve(solver): <<status, values>>
Solutions(m) ==
    LET F == Feasible(m)
        approx(val, tol) ==
            [v \in DOMAIN val |-> IF IsBinary(v) /\ val[v] = Scale THEN Scale - tol ELSE val[v]]
    IN  IF F = {}
        THEN { <<"Infeasible", approx([v \in variables(m) |-> IF v \in left THEN Scale ELSE 0], tol)>>
               : left \in SubsetsUpTo({ v \in variables(m) : IsBinary(v) }, MaxLeft),
                 tol \in Tolerances }
        ELSE LET best == { val \in F : \A other \in F :
                              Dot(m.objective, other) <= Dot(m.objective, val) }
             IN  { <<"Optimal", approx(val, tol)>> : val \in best, tol \in Tolerances }
                 \cup { <<"Not Solved", approx(val, tol)>> : val \in F, tol \in Tolerances }

----------------------------------------------------------------------------
(* solve_and_generate_schedules: decoding                                  *)

\* the order of the tokens as strings
TokenOrder == <<"0", "1", "2", "3", "4", "5", "6", "7", "8", "9", "A", "B",
                "c1", "c2", "diff", "p1", "p2", "used", "x", "y">>
Rank(tok) == CHOOSE i \in 1..Len(TokenOrder) : TokenOrder[i] = tok

RECURSIVE name_less(_, _)
name_less(a, b) ==
    IF a = <<>> THEN b # <<>>
    ELSE IF b = <<>> THEN FALSE
    ELSE IF Head(a) = Head(b) THEN name_less(Tail(a), Tail(b))
    ELSE Rank(Head(a)) < Rank(Head(b))

RECURSIVE SetToSeq(_)
SetToSeq(S) ==
    IF S = {} THEN <<>>
    ELSE LET v == CHOOSE w \in S : TRUE IN <<v>> \o SetToSeq(S \ {v})

\* model.variables() is sorted by name
sorted_variables(m) == SortSeq(SetToSeq(variables(m)), name_less)

\* var.value() == 1
is_one(value) == value = Scale
\* var.value() > 0.9
above_09(value) == value * 10 > 9 * Scale

\* the professor the student decoder reports for a section
professor_of(course_code, section_num) ==
    IF section_num # "" /\ ~is_int(section_num) THEN "Unknown"
    ELSE LET rows == SelectSeq(lecturers_df, LAMBDA row :
                        /\ row.code = course_code
                        /\ (section_num # "" => row.secnum = int(section_num)))
         IN  IF Len(rows) > 0 THEN rows[1].prof ELSE "Unknown"

\* the schedule entry of an x variable
student_entry(parts) ==
    LET section == SubSeq(parts, 3, Len(parts) - 1)
        course_code == Front(section)
        section_num == Last(section)
    IN  [ id |-> parts[2], code |-> course_code, section |-> section_num,
          block |-> Last(parts), professor |-> professor_of(course_code, section_num) ]

extract_students(m, vals) ==
    LET chosen == SelectSeq(sorted_variables(m), LAMBDA v :
                      /\ Head(v) = "x" /\ is_one(vals[v])
                      /\ Len(v) >= 4
                      /\ Len(v) - 3 >= 2)
        entries == [i \in 1..Len(chosen) |-> student_entry(chosen[i])]
    IN  [sid \in { entries[i].id : i \in 1..Len(entries) } |->
            SelectSeq(entries, LAMBDA e : e.id = sid)]

\* the schedule entry of a y variable
professor_entry(parts) ==
    LET section == SubSeq(parts, 3, Len(parts) - 1)
    IN  [ id |-> parts[2], code |-> <<section[1]>>, section |-> section[2],
          block |-> Last(parts) ]

extract_professors(m, vals) ==
    LET chosen == SelectSeq(sorted_variables(m), LAMBDA v :
                      /\ Head(v) = "y" /\ above_09(vals[v])
                      /\ Len(v) >= 4)
        entries == [i \in 1..Len(chosen) |-> professor_entry(chosen[i])]
    IN  [pid \in { entries[i].id : i \in 1..Len(entries) } |->
            SelectSeq(entries, LAMBDA e : e.id = pid)]

scheduled_courses(schedules, sid) ==
    { schedules[sid][i].code : i \in 1..Len(schedules[sid]) }

\* fulfilled_required, fulfilled_requested, fulfilled_recommended
count_fulfilled(schedules) ==
    [t \in Types |->
        Cardinality({ r \in requests_df :
            /\ r.type = t
            /\ \E sid \in DOMAIN schedules :
                  /\ r.student = int(sid)
                  /\ r.code \in scheduled_courses(schedules, sid) })]

\* Faulty variant: a student who is not scheduled at all is not reported
unfulfilled_required_scheduled_only(schedules) ==
    { [student |-> r.student, code |-> r.code] :
        r \in { q \in requests_df :
                  /\ q.type = "Required"
                  /\ str(q.student) \in DOMAIN schedules
                  /\ q.code \notin scheduled_courses(schedules, str(q.student)) } }

unfulfilled_required(schedules) ==
    { [student |-> r.student, code |-> r.code] :
        r \in { q \in requests_df :
                  /\ q.type = "Required"
                  /\ IF str(q.student) \in DOMAIN schedules
                     THEN q.code \notin scheduled_courses(schedules, str(q.student))
                     ELSE TRUE } }

solve_and_generate_schedules ==
    /\ pc = "solve"
    /\ \E outcome \in Solutions(model) :
          /\ status' = outcome[1]
          /\ values' = outcome[2]
    /\ student_schedules' = extract_students(model, values')
    /\ professor_schedules' = extract_professors(model, values')
    /\ fulfilled' = count_fulfilled(student_schedules')
    /\ unfulfilled_required_requests' = unfulfilled_required(student_schedules')
    /\ pc' = "blocks"
    /\ UNCHANGED <<inputs, frames, model, tables>>

----------------------------------------------------------------------------
(* generate_block_schedules                                                *)

Placeholder == <<"---">>

\* f"{Course Code} (Sec {Section})"
course_info(entry) == entry.code \o <<"(Sec", entry.section>>

\* Faulty variant: the dict starts empty and the table is not reindexed
block_row_entries_only(courses) ==
    [b \in { courses[i].block : i \in 1..Len(courses) } |->
        LET at == { i \in 1..Len(courses) : courses[i].block = b }
        IN  course_info(courses[CHOOSE i \in at : \A j \in at : j <= i])]

\* the row of one entity: the dict over all_blocks, overwritten entry by
\* entry, then reindexed to the columns sorted(all_blocks)
block_row(courses) ==
    LET keys == all_blocks \cup { courses[i].block : i \in 1..Len(courses) }
        dict == [b \in keys |->
                    LET at == { i \in 1..Len(courses) : courses[i].block = b }
                    IN  IF at = {} THEN Placeholder
                        ELSE course_info(courses[CHOOSE i \in at : \A j \in at : j <= i])]
    IN  [b \in all_blocks |-> dict[b]]

generate_block_schedules ==
    /\ pc = "blocks"
    /\ student_block_schedules' =
          [sid \in DOMAIN student_schedules |-> block_row(student_schedules[sid])]
    /\ professor_block_schedules' =
          [pid \in DOMAIN professor_schedules |-> block_row(professor_schedules[pid])]
    /\ pc' = "done"
    /\ UNCHANGED <<inputs, frames, model, results>>

----------------------------------------------------------------------------
Next ==
    \/ preprocess_data
    \/ build_optimization_model
    \/ solve_and_generate_schedules
    \/ generate_block_schedules

Spec == Init /\ [][Next]_vars

----------------------------------------------------------------------------
(* Inputs whose course codes contain the separator '_' or are absent from  *)
(* the course list: load_data reads the three files as they are, nothing   *)
(* validates a code.                                                       *)

\* The course list has c1 alone or c1 and c1_x.
CodeCourseLists ==
    { << [code |-> <<"c1">>, blocks |-> <<"A", "B">>, min |-> 1, max |-> 2] >>,
      << [code |-> <<"c1">>, blocks |-> <<"A", "B">>, min |-> 1, max |-> 2],
         [code |-> <<"c1", "x">>, blocks |-> <<"A">>, min |-> 1, max |-> 2] >> }

\* c9 is in no course list.
CodeLecturerPool ==
    << [code |-> <<"c1">>,      secnum |-> 1, prof |-> "p1"],
       [code |-> <<"c1", "x">>, secnum |-> 1, prof |-> "p2"],
       [code |-> <<"c9">>,      secnum |-> 1, prof |-> "p1"] >>

CodeLecturerLists ==
    { RowsAt(CodeLecturerPool, keep) : keep \in (SUBSET (1..Len(CodeLecturerPool))) \ {{}} }

CodeRequestKeys == { <<1, <<"c1">> >>, <<1, <<"c1", "x">> >>, <<2, <<"c9">> >> }

CodeRequestSets ==
    { { [student |-> k[1], code |-> k[2], type |-> t[k]] : k \in ks }
      : ks \in (SUBSET CodeRequestKeys) \ {{}}, t \in [CodeRequestKeys -> Types] }

InitCodes ==
    /\ pc = "preprocess"
    /\ course_list \in CodeCourseLists
    /\ lecturer_details \in CodeLecturerLists
    /\ student_requests \in CodeRequestSets
    /\ courses_df = NoValue
    /\ lecturers_df = NoValue
    /\ requests_df = NoValue
    /\ all_blocks = NoValue
    /\ request_priorities = NoValue
    /\ model = NoValue
    /\ status = NoValue
    /\ values = NoValue
    /\ student_schedules = NoValue
    /\ professor_schedules = NoValue
    /\ fulfilled = NoValue
    /\ unfulfilled_required_requests = NoValue
    /\ student_block_schedules = NoValue
    /\ professor_block_schedules = NoValue

SpecCodes == InitCodes /\ [][Next]_vars

----------------------------------------------------------------------------
(* Vocabulary of the properties                                            *)

Built == pc \in {"solve", "blocks", "done"}
Solved == pc \in {"blocks", "done"}

\* the solver's values are an assignment that satisfies the built model
SolvedSatisfying == Solved /\ Satisfies(model, values)

\* the course a section belongs to: Section_ID without its section number
CourseOfSection(sec) == Front(sec)

\* the course row of a code, and the rows of the Required requests
RowOfCourse(code) == courses_df[CHOOSE i \in 1..Len(courses_df) : courses_df[i].code = code]
RequiredRequests == { r \in requests_df : r.type = "Required" }

\* the x variables at 1 of a student in a block, the y variables at 1 of a
\* professor in a block, the students and the professors at 1 in a
\* (section, block)
XAtOne(s, b) == { k \in DOMAIN model.x : k[1] = s /\ k[3] = b /\ values[model.x[k]] = Scale }
YAtOne(p, b) == { k \in DOMAIN model.y : k[1] = p /\ k[3] = b /\ values[model.y[k]] = Scale }
Enrolled(sec, b) == { k \in DOMAIN model.x : k[2] = sec /\ k[3] = b /\ values[model.x[k]] = Scale }
Teaching(sec, b) == { k \in DOMAIN model.y : k[2] = sec /\ k[3] = b /\ values[model.y[k]] = Scale }
BlocksOfKeys(keys) == all_blocks \cup { k[3] : k \in keys }

\* the student's extracted schedule has an entry for the course
InSchedule(student, code) ==
    /\ str(student) \in DOMAIN student_schedules
    /\ \E i \in 1..Len(student_schedules[str(student)]) :
          student_schedules[str(student)][i].code = code

----------------------------------------------------------------------------
(* C1 (as claimed): every Required request (student, course) has the      *)
(* coverage constraint "sum of the student's x variables over all         *)
(* sections and blocks of the course >= 1" in the built model; when the   *)
(* course has no section, the solve is Infeasible and the request is in   *)
(* the unmet-required list.                                               *)
C1_CoverageOfEveryRequired ==
    /\ Built =>
         \A r \in RequiredRequests :
            \E c \in model.constraints :
               /\ c.sense = ">=" /\ c.rhs = 1
               /\ c.terms = lpSum({ model.x[k] : k \in { q \in DOMAIN model.x :
                                       q[1] = r.student /\ CourseOfSection(q[2]) = r.code } })
    /\ Solved =>
         \A r \in RequiredRequests :
            (\A i \in 1..Len(lecturers_df) : lecturers_df[i].code # r.code)
               => /\ status = "Infeasible"
                  /\ [student |-> r.student, code |-> r.code] \in unfulfilled_required_requests

(* C2 (as claimed): the weights are Required 3, Requested 2, Recommended  *)
(* 1, and the objective of the built model is the sum of the weights of   *)
(* the x variables minus 0.01 times the diff variables, also when a pair  *)
(* of same-course sections has added its penalty.                         *)
C2_ObjectiveIsWeightsMinusPenalty ==
    Built =>
        /\ priority_map["Required"] = 3
        /\ priority_map["Requested"] = 2
        /\ priority_map["Recommended"] = 1
        /\ \A v \in variables(model) :
              (IF v \in DOMAIN model.objective THEN model.objective[v] ELSE 0)
              = CASE Head(v) = "x" ->
                        LET k == CHOOSE q \in DOMAIN model.x : model.x[q] = v
                            r == CHOOSE q \in requests_df :
                                    q.student = k[1] /\ q.code = CourseOfSection(k[2])
                        IN  Scale * priority_map[r.type]
                  [] Head(v) = "diff" -> -1
                  [] OTHER -> 0

(* C3: in every assignment that satisfies the built model, a student has  *)
(* at most one x variable at 1 in any block.                              *)
C3_StudentOneSectionPerBlock ==
    SolvedSatisfying =>
        \A s \in students : \A b \in BlocksOfKeys(DOMAIN model.x) :
            Cardinality(XAtOne(s, b)) <= 1

\* a student with two sections open in one block sits in one of them
C3_Witness ==
    /\ SolvedSatisfying
    /\ \E s \in students : \E b \in all_blocks :
          /\ Cardinality({ k \in DOMAIN model.x : k[1] = s /\ k[3] = b }) >= 2
          /\ Cardinality(XAtOne(s, b)) = 1

(* C4: in every assignment that satisfies the built model, a professor    *)
(* has at most one y variable at 1 in any block.                          *)
C4_ProfessorOneSectionPerBlock ==
    SolvedSatisfying =>
        \A p \in professors : \A b \in BlocksOfKeys(DOMAIN model.y) :
            Cardinality(YAtOne(p, b)) <= 1

\* a professor qualified for two sections in one block teaches one of them
C4_Witness ==
    /\ SolvedSatisfying
    /\ \E p \in professors : \E b \in all_blocks :
          /\ Cardinality({ k \in DOMAIN model.y : k[1] = p /\ k[3] = b }) >= 2
          /\ Cardinality(YAtOne(p, b)) = 1

C6_ProfessorsEqualUsage ==
    SolvedSatisfying =>
        \A k \in DOMAIN model.section_used :
            Cardinality(Teaching(k[1], k[2])) * Scale = values[model.section_used[k]]

\* a used section with two qualified professors has one of them
C6_Witness ==
    /\ SolvedSatisfying
    /\ \E k \in DOMAIN model.section_used :
          /\ values[model.section_used[k]] = Scale
          /\ Cardinality({ q \in DOMAIN model.y : q[2] = k[1] /\ q[3] = k[2] }) = 2
          /\ Cardinality(Teaching(k[1], k[2])) = 1

(* C7: after solve_and_generate_schedules, a Required request is either   *)
(* in the student's extracted schedule or in the unfulfilled-required     *)
(* list, never both and never neither.                                    *)
C7_RequiredScheduledOrUnmet ==
    Solved =>
        \A r \in RequiredRequests :
            InSchedule(r.student, r.code)
               # ([student |-> r.student, code |-> r.code] \in unfulfilled_required_requests)

\* one Required request met and another one unmet in the same run
C7_Witness ==
    /\ Solved
    /\ \E r \in RequiredRequests : InSchedule(r.student, r.code)
    /\ \E r \in RequiredRequests :
          [student |-> r.student, code |-> r.code] \in unfulfilled_required_requests

(* C8 (as claimed): when the status is Infeasible, the student and the    *)
(* professor schedules are empty and no request is counted as fulfilled,  *)
(* whatever values the solver left.                                       *)
C8_InfeasibleClaimsNothing ==
    (Solved /\ status = "Infeasible") =>
        /\ DOMAIN student_schedules = {}
        /\ DOMAIN professor_schedules = {}
        /\ \A t \in Types : fulfilled[t] = 0

\* the sum of the priority weights of the x variables at 1
WeightOf(val) ==
    LET w == [v \in { model.x[k] : k \in DOMAIN model.x } |->
                LET k == CHOOSE q \in DOMAIN model.x : model.x[q] = v
                IN  request_priorities[<<k[1], CourseOfSection(k[2])>>]]
    IN  Dot(w, val)

(* C9 (as claimed): of two assignments satisfying the built model, the    *)
(* one with the strictly larger sum of priority weights has the strictly  *)
(* larger objective value.                                                *)
C9_PenaltyNeverTradesFulfillment ==
    pc = "solve" =>
        \A v1 \in Feasible(model) : \A v2 \in Feasible(model) :
            WeightOf(v1) > WeightOf(v2) => Dot(model.objective, v1) > Dot(model.objective, v2)

(* C10 (as claimed): every x variable and every y variable whose value is *)
(* at least 0.9 produces a schedule entry, for students as for            *)
(* professors.                                                            *)
C10_ExtractorRoundsValues ==
    Solved =>
        /\ \A k \in DOMAIN model.x :
              values[model.x[k]] * 10 >= 9 * Scale =>
                 /\ str(k[1]) \in DOMAIN student_schedules
                 /\ \E i \in 1..Len(student_schedules[str(k[1])]) :
                       LET e == student_schedules[str(k[1])][i]
                       IN  e.code \o <<e.section>> = k[2] /\ e.block = k[3]
        /\ \A k \in DOMAIN model.y :
              values[model.y[k]] * 10 >= 9 * Scale =>
                 /\ k[1] \in DOMAIN professor_schedules
                 /\ \E i \in 1..Len(professor_schedules[k[1]]) :
                       LET e == professor_schedules[k[1]][i]
                       IN  e.code \o <<e.section>> = k[2] /\ e.block = k[3]

(* C11 (as claimed): in every assignment that satisfies the built model,  *)
(* every section has at most one block in which its usage indicator is 1  *)
(* and at most one (professor, block) with a y variable at 1.             *)
C11_SectionOneBlockOneProfessor ==
    SolvedSatisfying =>
        \A sec \in SeqToSet(course_sections) :
            /\ Cardinality({ k \in DOMAIN model.section_used :
                    k[1] = sec /\ values[model.section_used[k]] = Scale }) <= 1
            /\ Cardinality({ k \in DOMAIN model.y :
                    k[2] = sec /\ values[model.y[k]] = Scale }) <= 1

(* C12 (as claimed): decoding is the inverse of variable naming. For      *)
(* every x and y variable of the built model, the student decoder and the *)
(* professor decoder recover the entity id, the course code, the section  *)
(* number and the block the variable was created for, also when the       *)
(* course code contains '_'; the two decoders recover the same (course    *)
(* code, section number) from the same section identifier.                *)
C12_DecodingInvertsNaming ==
    Built =>
        /\ \A k \in DOMAIN model.x :
              LET e == student_entry(model.x[k])
              IN  /\ e.id = str(k[1])
                  /\ e.code = CourseOfSection(k[2])
                  /\ e.section = Last(k[2])
                  /\ e.block = k[3]
        /\ \A k \in DOMAIN model.y :
              LET e == professor_entry(model.y[k])
              IN  /\ e.id = k[1]
                  /\ e.code = CourseOfSection(k[2])
                  /\ e.section = Last(k[2])
                  /\ e.block = k[3]

\* the course codes of the course list, and the built model without the
\* coverage constraints of the requests whose course code is not among them
KnownCodes == { courses_df[i].code : i \in 1..Len(courses_df) }
WithoutUnknownRequests ==
    [model EXCEPT !.constraints =
        { c \in @ : ~ \E r \in requests_df :
                        /\ r.code \notin KnownCodes
                        /\ c.name = <<"required", str(r.student)>> \o r.code }]

(* C13 (as claimed): a lecturer record or a request whose course code is  *)
(* absent from the course list is excluded. No variable is created for a  *)
(* section of such a course, the built model has the same satisfying      *)
(* assignments as without the record's constraints, and the solve is      *)
(* never Infeasible because of such a record.                             *)
C13_UnknownCourseRecordExcluded ==
    /\ Built =>
          /\ \A k \in DOMAIN model.x : CourseOfSection(k[2]) \in KnownCodes
          /\ \A k \in DOMAIN model.y : CourseOfSection(k[2]) \in KnownCodes
    /\ pc = "solve" => Feasible(model) = Feasible(WithoutUnknownRequests)
    /\ Solved /\ status = "Infeasible" => Feasible(WithoutUnknownRequests) = {}

\* a row has one cell per block of the block universe and no other: the
\* course and section of an entry of the block, the placeholder without one
DenseRow(row, courses) ==
    /\ DOMAIN row = all_blocks
    /\ \A b \in all_blocks :
          LET at == { i \in 1..Len(courses) : courses[i].block = b }
          IN  IF at = {} THEN row[b] = Placeholder
              ELSE \E i \in at : row[b] = course_info(courses[i])

(* C14: generate_block_schedules produces, for every student and every    *)
(* professor that has a schedule, a row with exactly one cell for each    *)
(* block of the block universe and no other column; the cell holds the    *)
(* course and section of the entity's entry in that block, and the        *)
(* placeholder '---' when there is none.                                  *)
C14_BlockTableDense ==
    pc = "done" =>
        /\ DOMAIN student_block_schedules = DOMAIN student_schedules
        /\ \A sid \in DOMAIN student_schedules :
              DenseRow(student_block_schedules[sid], student_schedules[sid])
        /\ DOMAIN professor_block_schedules = DOMAIN professor_schedules
        /\ \A pid \in DOMAIN professor_schedules :
              DenseRow(professor_block_schedules[pid], professor_schedules[pid])

\* a student's row with a course in one block and the placeholder in another
C14_Witness ==
    /\ pc = "done"
    /\ \E sid \in DOMAIN student_block_schedules :
          \E b1 \in all_blocks : \E b2 \in all_blocks :
              /\ student_block_schedules[sid][b1] = Placeholder
              /\ student_block_schedules[sid][b2] # Placeholder
              /\ \E i \in 1..Len(student_schedules[sid]) :
                    student_schedules[sid][i].block = b2

(* C15 (as claimed): in every assignment that satisfies the built model,  *)
(* a student is enrolled in at most one (section, block) of any one       *)
(* requested course, so the request counts once in the objective and the  *)
(* student's schedule never lists the same course twice.                  *)
C15_OneEnrolmentPerCourse ==
    SolvedSatisfying =>
        /\ \A s \in students : \A code \in student_course_requests[s] :
              Cardinality({ k \in DOMAIN model.x :
                    /\ k[1] = s
                    /\ CourseOfSection(k[2]) = code
                    /\ values[model.x[k]] = Scale }) <= 1
        /\ \A sid \in DOMAIN student_schedules :
              \A i \in 1..Len(student_schedules[sid]) :
                  \A j \in 1..Len(student_schedules[sid]) :
                      student_schedules[sid][i].code = student_schedules[sid][j].code
                          => i = j

(* C16 (as claimed): for every entry of an extracted student schedule,    *)
(* the reported professor is the professor whose y variable for the       *)
(* entry's section and block is 1 in the same solution, also when several *)
(* professors are qualified for the section.                              *)
C16_ReportedProfessorTeaches ==
    SolvedSatisfying =>
        \A sid \in DOMAIN student_schedules :
            \A i \in 1..Len(student_schedules[sid]) :
                LET e == student_schedules[sid][i]
                IN  \E k \in DOMAIN model.y :
                        /\ k[1] = e.professor
                        /\ k[2] = e.code \o <<e.section>>
                        /\ k[3] = e.block
                        /\ values[model.y[k]] = Scale

====
